---- MODULE Spec2Model ----
(***************************************************************************)
(* ScrollWithPointerMovement (src/main.c): the event loop that turns raw   *)
(* pointer motion into scroll-wheel button events while a keyboard trigger *)
(* is engaged.  Accumulators are C doubles; the model feeds them integer   *)
(* deltas, on which double arithmetic is exact.  The X server is the       *)
(* environment: it chooses the next event, the pointer position and the    *)
(* value of the clock.                                                     *)
(***************************************************************************)
EXTENDS Integers, Sequences, FiniteSets, TLC

VARIABLES cfg,                      \* struct Config, fixed after startup
          cvalue,                   \* parse_args_into_config(): the argument of -c
          xtest_keyboard_device_id, \* main(): id of the XTEST keyboard
          is_active,                \* static int is_active
          scrolls_since_active,     \* static int scrolls_since_active
          last_scroll_time,         \* static struct timespec last_scroll_time
          total_movement_y_delta,   \* main(): vertical accumulator
          total_movement_x_delta,   \* main(): horizontal accumulator
          start_pointer_pos,        \* main(): position the pointer is warped back to
          now,                      \* CLOCK_REALTIME
          out,                      \* X requests issued by the last step
          ev,                       \* history: kind of the last step, and what its checks did
          win,                      \* history of the vertical axis in the current activation window
          env,                      \* history of what the X server saw of the current activation window
          hide_count                \* X server: XFixesHideCursor requests not matched by a show request

vars == <<cfg, cvalue, xtest_keyboard_device_id, is_active, scrolls_since_active,
          last_scroll_time, total_movement_y_delta, total_movement_x_delta,
          start_pointer_pos, now, out, ev, win, env, hide_count>>

-----------------------------------------------------------------------------
(* Program constants *)

NANOSECOND_TO_MILLISECOND_DIV == 1000000
SCROLL_TRIGGER_SPEED_LIMIT_MS == 30
CAPSLOCK_KEY_CODE == 66
SCROLL_HORIZONTAL == 1
SCROLL_VERTICAL == 2
SCROLL_UP == 4
SCROLL_DOWN == 5
SCROLL_LEFT == 6
SCROLL_RIGHT == 7
NSEC_PER_SEC == 1000000000

-----------------------------------------------------------------------------
(* Bounds of the model *)

MaxDelta == 3        \* raw motion deltas range over -MaxDelta..MaxDelta
MaxElapsedMs == 30   \* the clock runs for at most this long after startup
MaxAccumulator == 5  \* motion that takes an accumulator beyond this is not explored

Thresholds == {2}                         \* values of -c explored
KeyCodes == {CAPSLOCK_KEY_CODE, 37}       \* key codes of incoming key events
EventModifiers == {0, 1, 3}               \* modifier bitmasks of incoming key events
DeviceIds == {3, 5}                       \* source devices of key events; 5 is the XTEST keyboard
XTestIds == {5}                           \* results of the XTEST keyboard lookup
PointerPositions == {[x |-> 0, y |-> 0], [x |-> 7, y |-> 9]}
DeltasY == (-MaxDelta)..MaxDelta          \* vertical raw deltas
DeltasX == {-MaxDelta, 0, MaxDelta}       \* horizontal raw deltas

\* Clock advances between two events: the rate limit, and 1 ns short of it.
SpeedLimitNs == SCROLL_TRIGGER_SPEED_LIMIT_MS * NANOSECOND_TO_MILLISECOND_DIV
ClockSteps == {SpeedLimitNs - 1, SpeedLimitNs}
\* Clock advances between the two clock reads of one motion event.
IntraEventDelays == {0} \cup ClockSteps

\* Arguments of -c: "2", "0", "-2", "abc", "2x" and "99999999999999999999".
ThresholdArgs ==
    {<<"2">>, <<"0">>, <<"-", "2">>, <<"a", "b", "c">>, <<"2", "x">>,
     [i \in 1..20 |-> "9"]}

ZeroTime == [tv_sec |-> 0, tv_nsec |-> 0]
\* The clock at startup: 20 ms before a full second, so that the clock wraps tv_nsec.
StartTime == [tv_sec |-> 1, tv_nsec |-> NSEC_PER_SEC - 20 * NANOSECOND_TO_MILLISECOND_DIV]

-----------------------------------------------------------------------------
(* C arithmetic *)

Abs(n) == IF n < 0 THEN -n ELSE n

\* (int)(a / b) for b > 0: conversion of the quotient truncates toward zero
TruncDiv(a, b) == IF a >= 0 THEN a \div b ELSE -((-a) \div b)

RECURSIVE BitAnd(_, _)
BitAnd(a, b) ==
    IF a = 0 \/ b = 0 THEN 0
    ELSE (a % 2) * (b % 2) + 2 * BitAnd(a \div 2, b \div 2)

\* time t advanced by d nanoseconds, 0 <= d < NSEC_PER_SEC
TimeAdd(t, d) ==
    IF t.tv_nsec + d >= NSEC_PER_SEC
    THEN [tv_sec |-> t.tv_sec + 1, tv_nsec |-> t.tv_nsec + d - NSEC_PER_SEC]
    ELSE [tv_sec |-> t.tv_sec, tv_nsec |-> t.tv_nsec + d]

\* nanoseconds from StartTime to t (t within two seconds of StartTime)
SinceStart(t) == (t.tv_sec - StartTime.tv_sec) * NSEC_PER_SEC + t.tv_nsec - StartTime.tv_nsec

CanAdvance(d) == SinceStart(now) + d <= MaxElapsedMs * NANOSECOND_TO_MILLISECOND_DIV

-----------------------------------------------------------------------------
(* strtoimax.  A C string is a sequence of characters. *)

DigitChars == <<"0", "1", "2", "3", "4", "5", "6", "7", "8", "9">>
IsDigit(ch) == \E i \in 1..Len(DigitChars) : DigitChars[i] = ch
DigitValue(ch) == (CHOOSE i \in 1..Len(DigitChars) : DigitChars[i] = ch) - 1

\* the decimal digits of INTMAX_MAX = 2^63 - 1
IntmaxMaxDigits == <<9, 2, 2, 3, 3, 7, 2, 0, 3, 6, 8, 5, 4, 7, 7, 5, 8, 0, 7>>

RECURSIVE SkipSpace(_)
SkipSpace(s) == IF s # <<>> /\ Head(s) = " " THEN SkipSpace(Tail(s)) ELSE s

\* the digits a string starts with, as numbers
RECURSIVE DigitRun(_)
DigitRun(s) ==
    IF s = <<>> \/ ~IsDigit(Head(s)) THEN <<>>
    ELSE <<DigitValue(Head(s))>> \o DigitRun(Tail(s))

RECURSIVE StripZeros(_)
StripZeros(ds) == IF ds # <<>> /\ Head(ds) = 0 THEN StripZeros(Tail(ds)) ELSE ds

\* digit sequences of equal length: a is the larger number
RECURSIVE GreaterDigits(_, _)
GreaterDigits(a, b) ==
    /\ a # <<>>
    /\ \/ Head(a) > Head(b)
       \/ Head(a) = Head(b) /\ GreaterDigits(Tail(a), Tail(b))

RECURSIVE DecimalValue(_)
DecimalValue(ds) ==
    IF ds = <<>> THEN 0
    ELSE 10 * DecimalValue(SubSeq(ds, 1, Len(ds) - 1)) + ds[Len(ds)]

\* strtoimax(nptr, NULL, 10): white space, a sign, digits; what follows the digits
\* is ignored and no digits at all give 0.  A magnitude beyond the range of
\* intmax_t gives the limit and sets errno to ERANGE.
strtoimax(nptr) ==
    LET s == SkipSpace(nptr)
        signed == s # <<>> /\ Head(s) \in {"-", "+"}
        negative == signed /\ Head(s) = "-"
        ds == StripZeros(DigitRun(IF signed THEN Tail(s) ELSE s))
        \* the magnitude of INTMAX_MIN is one more than INTMAX_MAX
        limit == IF negative
                 THEN [IntmaxMaxDigits EXCEPT ![Len(IntmaxMaxDigits)] = @ + 1]
                 ELSE IntmaxMaxDigits
    IN  IF \/ Len(ds) > Len(limit)
           \/ Len(ds) = Len(limit) /\ GreaterDigits(ds, limit)
        THEN [erange |-> TRUE, num |-> IF negative THEN "INTMAX_MIN" ELSE "INTMAX_MAX"]
        ELSE [erange |-> FALSE,
              num |-> IF negative THEN -DecimalValue(ds) ELSE DecimalValue(ds)]

-----------------------------------------------------------------------------
(* X requests recorded in out *)

Req(call, a, b) == [call |-> call, a |-> a, b |-> b]
HideCursor == Req("XFixesHideCursor", 0, 0)
ShowCursor == Req("XFixesShowCursor", 0, 0)
WarpPointer(p) == Req("XWarpPointer", p.x, p.y)
FakeKeyRelease(code) == Req("XTestFakeKeyEvent", code, 0)
\* one scroll tick: the press and the release of a wheel button
FakeButtonClick(button) == Req("XTestFakeButtonEvent", button, 1)

RECURSIVE Repeat(_, _)
Repeat(e, n) == IF n <= 0 THEN <<>> ELSE <<e>> \o Repeat(e, n - 1)

-----------------------------------------------------------------------------
(* Functions of main.c *)

create_default_config ==
    [mouse_move_delta_to_scroll_threshold |-> 50,
     allow_horizontal_scroll |-> FALSE,
     allow_triggering_of_repeated_scroll_event |-> FALSE,
     is_toggle_mode_on |-> FALSE,
     release_trigger_button |-> TRUE,
     trigger_key_code |-> CAPSLOCK_KEY_CODE,
     trigger_key_modifiers |-> 0]

\* The configuration parse_args_into_config builds from the options
\* -c th, -H, -R, -t, -s 66 m (-r only sets a flag that is already set).
Config(th, h, r, t, m) ==
    [create_default_config EXCEPT
        !.mouse_move_delta_to_scroll_threshold = th,
        !.allow_horizontal_scroll = h,
        !.allow_triggering_of_repeated_scroll_event = r,
        !.is_toggle_mode_on = t,
        !.trigger_key_modifiers = m]

\* case 'c' of parse_args_into_config: the process exits on ERANGE, and else
\* the threshold is (uint) labs(num), which is |num| for |num| < 2^32
ThresholdOption(optarg) ==
    LET r == strtoimax(optarg)
    IN  IF r.erange THEN [exits |-> TRUE, threshold |-> 0]
        ELSE [exits |-> FALSE, threshold |-> Abs(r.num)]

\* The command lines explored: the defaults, "-R -t -s 66 1" and "-H -R -s 66 1",
\* each with -c 2.
Configs ==
    {Config(th, o[1], o[2], o[3], o[4]) :
        th \in Thresholds,
        o \in {<<FALSE, FALSE, FALSE, 0>>, <<FALSE, TRUE, TRUE, 1>>,
               <<TRUE, TRUE, FALSE, 1>>}}

is_trigger_shortcut(key_code, modifiers, c) ==
    IF c.trigger_key_modifiers > 0
       /\ BitAnd(modifiers, c.trigger_key_modifiers) # modifiers
    THEN FALSE
    ELSE key_code = c.trigger_key_code

\* diff_timespec without the borrow from tv_sec
diff_timespec_noborrow(start, end) ==
    [tv_sec |-> end.tv_sec - start.tv_sec, tv_nsec |-> end.tv_nsec - start.tv_nsec]

diff_timespec(start, end) ==
    IF end.tv_nsec - start.tv_nsec < 0
    THEN [tv_sec |-> end.tv_sec - start.tv_sec - 1,
          tv_nsec |-> NSEC_PER_SEC + end.tv_nsec - start.tv_nsec]
    ELSE [tv_sec |-> end.tv_sec - start.tv_sec,
          tv_nsec |-> end.tv_nsec - start.tv_nsec]

\* the rate-limit test of check_for_scroll_trigger
IsRateLimited(last, t) ==
    LET time_since_last_scroll == diff_timespec(last, t)
    IN  /\ time_since_last_scroll.tv_sec = 0
        /\ time_since_last_scroll.tv_nsec \div NANOSECOND_TO_MILLISECOND_DIV
             < SCROLL_TRIGGER_SPEED_LIMIT_MS

\* the threshold test of check_for_scroll_trigger
CrossesThreshold(total, c) == Abs(total) > c.mouse_move_delta_to_scroll_threshold

ScrollAmount(total, c) == TruncDiv(total, c.mouse_move_delta_to_scroll_threshold)

\* before_synthethic_scroll without the test of scrolls_since_active
before_synthethic_scroll_always(c, scrolls) ==
    IF c.release_trigger_button THEN <<FakeKeyRelease(c.trigger_key_code)>> ELSE <<>>

\* the requests before_synthethic_scroll issues
before_synthethic_scroll(c, scrolls) ==
    IF c.release_trigger_button /\ scrolls = 0
    THEN <<FakeKeyRelease(c.trigger_key_code)>>
    ELSE <<>>

ScrollButton(scrollDirection, amount) ==
    LET negative_scroll_amount_btn ==
            IF scrollDirection = SCROLL_VERTICAL THEN SCROLL_UP ELSE SCROLL_LEFT
        postitive_scroll_amount_btn ==
            IF scrollDirection = SCROLL_VERTICAL THEN SCROLL_DOWN ELSE SCROLL_RIGHT
    IN  IF amount < 0 THEN negative_scroll_amount_btn ELSE postitive_scroll_amount_btn

\* ClickCount with the loop left after its first pass whatever the flag
ClickCount_once(c, amount) == IF amount = 0 THEN 0 ELSE 1

\* number of passes of the loop of trigger_scroll
ClickCount(c, amount) ==
    IF amount = 0 THEN 0
    ELSE IF c.allow_triggering_of_repeated_scroll_event THEN Abs(amount) ELSE 1

\* the requests trigger_scroll issues
trigger_scroll(c, scrollDirection, amount) ==
    Repeat(FakeButtonClick(ScrollButton(scrollDirection, amount)), ClickCount(c, amount))

\* AdjustAccumulator that forgets the residue
AdjustAccumulator_reset(total, scroll_amount, c) == 0

\* AdjustAccumulator that takes off one threshold whatever the amount
AdjustAccumulator_one(total, scroll_amount, c) ==
    total - (IF scroll_amount < 0 THEN -1 ELSE 1) * c.mouse_move_delta_to_scroll_threshold

\* AdjustAccumulator that takes off only what was clicked
AdjustAccumulator_clicked(total, scroll_amount, c) ==
    total - (IF scroll_amount < 0 THEN -1 ELSE 1) * ClickCount(c, scroll_amount)
              * c.mouse_move_delta_to_scroll_threshold

\* the accumulator after a scroll of scroll_amount
AdjustAccumulator(total, scroll_amount, c) ==
    total - scroll_amount * c.mouse_move_delta_to_scroll_threshold

\* SuppressedTotal that keeps the accumulator
SuppressedTotal_keep(total) == total

\* the accumulator after a rate-limited crossing
SuppressedTotal(total) == 0

INT_MAX == 2147483647
INT_MIN == -INT_MAX - 1

\* With threshold 0 the quotient of line 384 is infinite and its conversion to
\* int is undefined: builds give INT_MIN or INT_MAX.  abs(INT_MIN) in the loop
\* of trigger_scroll is undefined as well, so that the loop is passed once or
\* not at all; without -R it is passed once for INT_MAX.
NoUndefined == [amount |-> 0, passes |-> 0]
UndefinedScrolls ==
    {[amount |-> INT_MIN, passes |-> 0], [amount |-> INT_MIN, passes |-> 1],
     [amount |-> INT_MAX, passes |-> 1]}

\* check_for_scroll_trigger on the accumulator `total`, reading the clock as t.
\* s holds the statics it reads and writes, the requests issued so far and, as
\* s.ub, what the build makes of the undefined conversion.
check_for_scroll_trigger(scroll_direction, total, delta, c, t, s) ==
    LET sum == total + delta
    IN  IF ~CrossesThreshold(sum, c)
        THEN [total |-> sum, last |-> s.last, scrolls |-> s.scrolls, out |-> s.out,
              outcome |-> "none", amount |-> 0]
        ELSE IF IsRateLimited(s.last, t)
        THEN [total |-> SuppressedTotal(sum), last |-> s.last, scrolls |-> s.scrolls, out |-> s.out,
              outcome |-> "suppressed", amount |-> 0]
        ELSE IF c.mouse_move_delta_to_scroll_threshold = 0
        THEN [total |-> AdjustAccumulator(sum, s.ub.amount, c),
              last |-> t,
              scrolls |-> s.scrolls + 1,
              out |-> s.out \o before_synthethic_scroll(c, s.scrolls)
                           \o Repeat(FakeButtonClick(ScrollButton(scroll_direction,
                                                                  s.ub.amount)),
                                     s.ub.passes),
              outcome |-> "emitted", amount |-> s.ub.amount]
        ELSE LET scroll_amount == ScrollAmount(sum, c)
             IN  [total |-> AdjustAccumulator(sum, scroll_amount, c),
                  last |-> t,
                  scrolls |-> s.scrolls + 1,
                  out |-> s.out \o before_synthethic_scroll(c, s.scrolls)
                               \o trigger_scroll(c, scroll_direction, scroll_amount),
                  outcome |-> "emitted", amount |-> scroll_amount]

\* set_is_active with the two cursor requests exchanged
set_is_active_swapped(active, cur_active, cur_scrolls) ==
    IF active = cur_active
    THEN [is_active |-> cur_active, scrolls |-> cur_scrolls, out |-> <<>>]
    ELSE [is_active |-> active, scrolls |-> 0,
          out |-> IF active THEN <<ShowCursor>> ELSE <<HideCursor>>]

\* set_is_active: the new statics and the requests issued
set_is_active(active, cur_active, cur_scrolls) ==
    IF active = cur_active
    THEN [is_active |-> cur_active, scrolls |-> cur_scrolls, out |-> <<>>]
    ELSE [is_active |-> active, scrolls |-> 0,
          out |-> IF active THEN <<HideCursor>> ELSE <<ShowCursor>>]

-----------------------------------------------------------------------------
(***************************************************************************)
(* History.  ev tells of the last step: its kind and, for a motion event   *)
(* handled while active, per axis (v vertical, h horizontal)               *)
(*   v, h        what check_for_scroll_trigger did: "none", "suppressed"   *)
(*               or "emitted"                                              *)
(*   ya, xa      the accumulator with the delta of the event added         *)
(*   vdue, hdue  what the accumulator, the threshold and the clock called  *)
(*               for: "none" below or on the threshold, "suppress" beyond  *)
(*               it less than 30 ms after the last emission, "emit" beyond *)
(*               it otherwise                                              *)
(* win is the history of the vertical axis in the current activation       *)
(* window:                                                                 *)
(*   clean  the window started with accumulator 0 and no vertical crossing *)
(*          of it was suppressed                                           *)
(*   sum    sum of the vertical deltas of the window                       *)
(*   net    ticks emitted in the window, down minus up                     *)
(*   ticks  sum of truncate(accumulator / threshold) over the crossings of *)
(*          the window that were due to emit                               *)
(***************************************************************************)

Threshold == cfg.mouse_move_delta_to_scroll_threshold

\* t is less than the rate limit after last, for last <= t
LessThanLimitAfter(last, t) ==
    /\ t.tv_sec - last.tv_sec \in {0, 1}
    /\ (t.tv_sec - last.tv_sec) * NSEC_PER_SEC + t.tv_nsec - last.tv_nsec < SpeedLimitNs

Due(acc, last, t) ==
    IF Abs(acc) <= Threshold THEN "none"
    ELSE IF LessThanLimitAfter(last, t) THEN "suppress"
    ELSE "emit"

Step(kind) ==
    [kind |-> kind, src |-> "none",
     v |-> "none", h |-> "none", vdue |-> "none", hdue |-> "none",
     ya |-> total_movement_y_delta, xa |-> total_movement_x_delta]

\* the motion event (deltaX, deltaY) whose horizontal check reads the clock d
\* nanoseconds after the vertical one, and whose checks did v and h
MotionStepOf(deltaX, deltaY, d, v, h) ==
    LET ya == total_movement_y_delta + deltaY
        vdue == Due(ya, last_scroll_time, now)
        xa == total_movement_x_delta + deltaX
    IN  [kind |-> "RawMotion", src |-> "none", v |-> v, h |-> h, vdue |-> vdue,
         hdue |-> IF cfg.allow_horizontal_scroll
                  THEN Due(xa, IF vdue = "emit" THEN now ELSE last_scroll_time,
                           TimeAdd(now, d))
                  ELSE "none",
         ya |-> ya,
         xa |-> IF cfg.allow_horizontal_scroll THEN xa ELSE total_movement_x_delta]

\* a key event: src tells whether it came from the XTEST keyboard ("xtest"),
\* or from another device as a repeat ("repeat"), or else whether its key code
\* is the trigger key code ("real") or not ("other")
KeyStep(kind, key_code, deviceid, is_repeat) ==
    [Step(kind) EXCEPT !.src = IF deviceid = xtest_keyboard_device_id THEN "xtest"
                                ELSE IF is_repeat THEN "repeat"
                                ELSE IF key_code = cfg.trigger_key_code THEN "real"
                                ELSE "other"]

WinStart(acc) == [clean |-> acc = 0 /\ Threshold > 0, sum |-> 0, net |-> 0, ticks |-> 0]
WinDead == [clean |-> FALSE, sum |-> 0, net |-> 0, ticks |-> 0]

SignedClicks(reqs) ==
    Len(SelectSeq(reqs, LAMBDA r : r = FakeButtonClick(SCROLL_DOWN)))
    - Len(SelectSeq(reqs, LAMBDA r : r = FakeButtonClick(SCROLL_UP)))

WinMotion(w, delta, v) ==
    IF w.clean /\ v.outcome # "suppressed"
    THEN LET acc == total_movement_y_delta + delta
         IN  [clean |-> TRUE, sum |-> w.sum + delta, net |-> w.net + SignedClicks(v.out),
              ticks |-> w.ticks + IF Due(acc, last_scroll_time, now) = "emit"
                                  THEN TruncDiv(acc, Threshold) ELSE 0]
    ELSE WinDead

(***************************************************************************)
(* env is what the X server saw of the current activation window:          *)
(*   releases   synthetic key releases it received in the window           *)
(*   emissions  crossings of the window that were due to emit              *)
(***************************************************************************)

EnvStart == [releases |-> 0, emissions |-> 0]

\* env after a key event that leaves the program active or not
EnvKey(active) == IF active /\ is_active THEN env ELSE EnvStart

\* env after a motion event handled while active that issued reqs and is told of by e
EnvMotion(reqs, e) ==
    [releases |-> env.releases
                    + Len(SelectSeq(reqs, LAMBDA r : r.call = "XTestFakeKeyEvent")),
     emissions |-> env.emissions + (IF e.vdue = "emit" THEN 1 ELSE 0)
                                 + (IF e.hdue = "emit" THEN 1 ELSE 0)]

\* The X server counts the hide requests of a client and shows the cursor
\* again when as many show requests have come.
RECURSIVE HidesAfter(_, _)
HidesAfter(count, reqs) ==
    IF reqs = <<>> THEN count
    ELSE HidesAfter(IF Head(reqs) = HideCursor THEN count + 1
                    ELSE IF Head(reqs) = ShowCursor THEN count - 1
                    ELSE count,
                    Tail(reqs))

-----------------------------------------------------------------------------
(* The program *)

\* the state in which main enters its loop
LoopEntry ==
    /\ xtest_keyboard_device_id \in XTestIds
    /\ is_active = FALSE
    /\ scrolls_since_active = 0
    /\ last_scroll_time = ZeroTime
    /\ total_movement_y_delta = 0
    /\ total_movement_x_delta = 0
    /\ start_pointer_pos = CHOOSE p \in PointerPositions : p.x = 0
    /\ now = StartTime
    /\ out = <<>>
    /\ ev = Step("Start")
    /\ win = WinDead
    /\ env = EnvStart
    /\ hide_count = 0

Init ==
    /\ cvalue = <<"2">>
    /\ cfg \in Configs
    /\ ThresholdOption(cvalue)
         = [exits |-> FALSE, threshold |-> cfg.mouse_move_delta_to_scroll_threshold]
    /\ LoopEntry

\* Time passes between two events.
ClockAdvance(d) ==
    /\ CanAdvance(d)
    /\ now' = TimeAdd(now, d)
    /\ out' = <<>>
    /\ ev' = Step("Clock")
    /\ UNCHANGED <<cfg, cvalue, xtest_keyboard_device_id, is_active, scrolls_since_active,
                   last_scroll_time, total_movement_y_delta, total_movement_x_delta,
                   start_pointer_pos, win, env, hide_count>>

\* KeyPressHit without the test of the repeat flag
KeyPressHit_repeats(key_code, mods, is_repeat, deviceid) ==
    /\ deviceid # xtest_keyboard_device_id
    /\ is_trigger_shortcut(key_code, mods, cfg)

\* the condition under which case XI_KeyPress acts
KeyPressHit(key_code, mods, is_repeat, deviceid) ==
    /\ deviceid # xtest_keyboard_device_id
    /\ is_trigger_shortcut(key_code, mods, cfg)
    /\ ~is_repeat

\* the activation a trigger key press asks set_is_active for
KeyPressTarget(c, active) ==
    IF c.is_toggle_mode_on THEN ~active
    ELSE IF ~active THEN TRUE
    ELSE active

\* case XI_KeyPress; pos is the answer of XQueryPointer
KeyPress(key_code, mods, is_repeat, deviceid, pos) ==
    LET hit == KeyPressHit(key_code, mods, is_repeat, deviceid)
        r == IF hit
             THEN set_is_active(KeyPressTarget(cfg, is_active), is_active,
                                scrolls_since_active)
             ELSE set_is_active(is_active, is_active, scrolls_since_active)
    IN  \* an answer of XQueryPointer is enumerated only where the handler asks
        /\ ~(hit /\ r.is_active) => pos = start_pointer_pos
        /\ is_active' = r.is_active
        /\ scrolls_since_active' = r.scrolls
        /\ out' = r.out
        /\ start_pointer_pos' = IF hit /\ r.is_active THEN pos ELSE start_pointer_pos
        /\ ev' = KeyStep(IF hit THEN "KeyPressHit" ELSE "KeyPress", key_code, deviceid,
                         is_repeat)
        /\ win' = IF r.is_active /\ ~is_active THEN WinStart(total_movement_y_delta)
                  ELSE IF ~r.is_active THEN WinDead ELSE win
        /\ env' = EnvKey(r.is_active)
        /\ hide_count' = HidesAfter(hide_count, r.out)
        /\ UNCHANGED <<cfg, cvalue, xtest_keyboard_device_id, last_scroll_time,
                       total_movement_y_delta, total_movement_x_delta, now>>

\* KeyReleaseModifiers with the modifiers of the event handed on
KeyReleaseModifiers_event(mods) == mods

\* the modifiers case XI_KeyRelease hands to is_trigger_shortcut
KeyReleaseModifiers(mods) == 0

\* KeyReleaseHit without the test of the toggle mode
KeyReleaseHit_anyMode(key_code, mods, deviceid) ==
    /\ deviceid # xtest_keyboard_device_id
    /\ is_active
    /\ is_trigger_shortcut(key_code, KeyReleaseModifiers(mods), cfg)

\* KeyReleaseHit without the test of the key code
KeyReleaseHit_anyKey(key_code, mods, deviceid) ==
    /\ ~cfg.is_toggle_mode_on
    /\ deviceid # xtest_keyboard_device_id
    /\ is_active

\* the condition under which case XI_KeyRelease acts
KeyReleaseHit(key_code, mods, deviceid) ==
    /\ ~cfg.is_toggle_mode_on
    /\ deviceid # xtest_keyboard_device_id
    /\ is_active
    /\ is_trigger_shortcut(key_code, KeyReleaseModifiers(mods), cfg)

\* case XI_KeyRelease
KeyRelease(key_code, mods, deviceid) ==
    LET hit == KeyReleaseHit(key_code, mods, deviceid)
        r == IF hit THEN set_is_active(FALSE, is_active, scrolls_since_active)
             ELSE set_is_active(is_active, is_active, scrolls_since_active)
    IN  /\ is_active' = r.is_active
        /\ scrolls_since_active' = r.scrolls
        /\ out' = r.out
        /\ ev' = KeyStep(IF hit THEN "KeyReleaseHit" ELSE "KeyRelease", key_code, deviceid,
                         FALSE)
        /\ win' = IF ~r.is_active THEN WinDead ELSE win
        /\ env' = EnvKey(r.is_active)
        /\ hide_count' = HidesAfter(hide_count, r.out)
        /\ UNCHANGED <<cfg, cvalue, xtest_keyboard_device_id, last_scroll_time,
                       total_movement_y_delta, total_movement_x_delta,
                       start_pointer_pos, now>>

\* HorizontalChecked whatever the option
HorizontalChecked_always(c) == TRUE

\* the test before the horizontal check of case XI_RawMotion
HorizontalChecked(c) == c.allow_horizontal_scroll

\* SharedLastScrollTime as if each axis had a rate limiter of its own
SharedLastScrollTime_perAxis(v) == last_scroll_time

\* last_scroll_time is one static for both axes: the horizontal check reads
\* what the vertical check of the same event left in it
SharedLastScrollTime(v) == v.last

\* what case XI_RawMotion does while active: the vertical check reads the clock
\* as `now`, the horizontal check d nanoseconds later
MotionWhileActive(deltaX, deltaY, d, ubY, ubX) ==
    LET s0 == [last |-> last_scroll_time, scrolls |-> scrolls_since_active,
               out |-> <<WarpPointer(start_pointer_pos)>>, ub |-> ubY]
        v == check_for_scroll_trigger(SCROLL_VERTICAL, total_movement_y_delta,
                                      deltaY, cfg, now, s0)
        h == IF HorizontalChecked(cfg)
             THEN check_for_scroll_trigger(SCROLL_HORIZONTAL, total_movement_x_delta,
                                           deltaX, cfg, TimeAdd(now, d),
                                           [last |-> SharedLastScrollTime(v),
                                            scrolls |-> v.scrolls,
                                            out |-> v.out, ub |-> ubX])
             ELSE [v EXCEPT !.total = total_movement_x_delta, !.outcome = "none"]
    IN  [y |-> v.total, x |-> h.total, last |-> h.last, scrolls |-> h.scrolls,
         out |-> h.out, v |-> [outcome |-> v.outcome, out |-> v.out],
         h |-> h.outcome]

\* MotionIgnored without the test
MotionIgnored_never == FALSE

\* the test that makes case XI_RawMotion leave at once
MotionIgnored == ~is_active

\* case XI_RawMotion
RawMotion(deltaX, deltaY, d) ==
    /\ CanAdvance(d)
    \* the clock is read a second time only by the horizontal check
    /\ (~cfg.allow_horizontal_scroll \/ ~is_active) => d = 0
    /\ IF MotionIgnored
       THEN /\ out' = <<>>
            /\ ev' = Step("RawMotion")
            /\ UNCHANGED <<total_movement_y_delta, total_movement_x_delta,
                           last_scroll_time, scrolls_since_active, now, win, env>>
       ELSE \E ubY, ubX \in {NoUndefined} \cup UndefinedScrolls :
            LET m == MotionWhileActive(deltaX, deltaY, d, ubY, ubX)
            IN  \* an outcome of the undefined conversion is enumerated only where
                \* the threshold makes it undefined
                /\ ubY = NoUndefined <=> Threshold # 0
                /\ ubX = NoUndefined <=> (Threshold # 0 \/ ~cfg.allow_horizontal_scroll)
                /\ Abs(m.y) <= MaxAccumulator
                /\ Abs(m.x) <= MaxAccumulator
                /\ total_movement_y_delta' = m.y
                /\ total_movement_x_delta' = m.x
                /\ last_scroll_time' = m.last
                /\ scrolls_since_active' = m.scrolls
                /\ out' = m.out
                /\ now' = TimeAdd(now, d)
                /\ win' = WinMotion(win, deltaY, m.v)
                /\ ev' = MotionStepOf(deltaX, deltaY, d, m.v.outcome, m.h)
                /\ env' = EnvMotion(m.out, ev')
    /\ hide_count' = HidesAfter(hide_count, out')
    /\ UNCHANGED <<cfg, cvalue, xtest_keyboard_device_id, is_active, start_pointer_pos>>

\* case XI_ButtonPress, and events the switch has no case for
OtherEvent ==
    /\ out' = <<>>
    /\ ev' = Step("Other")
    /\ UNCHANGED <<cfg, cvalue, xtest_keyboard_device_id, is_active, scrolls_since_active,
                   last_scroll_time, total_movement_y_delta, total_movement_x_delta,
                   start_pointer_pos, now, win, env, hide_count>>

Next ==
    \/ \E d \in ClockSteps : ClockAdvance(d)
    \/ \E k \in KeyCodes, m \in EventModifiers, rep \in BOOLEAN, dev \in DeviceIds,
          pos \in PointerPositions : KeyPress(k, m, rep, dev, pos)
    \/ \E k \in KeyCodes, m \in EventModifiers, dev \in DeviceIds : KeyRelease(k, m, dev)
    \/ \E dx \in DeltasX, dy \in DeltasY, d \in IntraEventDelays : RawMotion(dx, dy, d)
    \/ OtherEvent

Spec == Init /\ [][Next]_vars

\* The program started as "-c <argument>" with each of ThresholdArgs.
InitArgs ==
    /\ cvalue \in ThresholdArgs
    /\ ~ThresholdOption(cvalue).exits
    /\ cfg = Config(ThresholdOption(cvalue).threshold, FALSE, FALSE, FALSE, 0)
    /\ LoopEntry

SpecArgs == InitArgs /\ [][Next]_vars

-----------------------------------------------------------------------------
(* Vocabulary of the properties *)

FromRealDevice(dev) == dev # xtest_keyboard_device_id

\* the requests of a sequence that click one of the given buttons
Clicks(reqs, buttons) ==
    SelectSeq(reqs, LAMBDA r : r.call = "XTestFakeButtonEvent" /\ r.a \in buttons)
VerticalClicks(reqs) == Clicks(reqs, {SCROLL_UP, SCROLL_DOWN})
HorizontalClicks(reqs) == Clicks(reqs, {SCROLL_LEFT, SCROLL_RIGHT})
KeyReleases(reqs) == SelectSeq(reqs, LAMBDA r : r.call = "XTestFakeKeyEvent")
Warps(reqs) == SelectSeq(reqs, LAMBDA r : r.call = "XWarpPointer")

\* the kinds of step that handle a key press, a key release, a motion event
PressStep == ev'.kind \in {"KeyPress", "KeyPressHit"}
ReleaseStep == ev'.kind \in {"KeyRelease", "KeyReleaseHit"}
MotionStep == ev'.kind = "RawMotion"

-----------------------------------------------------------------------------
(* C1: in momentary mode a non-repeat press of the trigger chord from a    *)
(* real device while inactive activates, and a release of the trigger key  *)
(* code from a real device while active deactivates in the handling of     *)
(* that event, whatever modifiers the release carries.                     *)

C3_InactiveMotionNoEffect ==
    [][(~is_active /\ MotionStep) =>
         \A dx \in DeltasX, dy \in DeltasY :
            RawMotion(dx, dy, 0) =>
               /\ out' = <<>>
               /\ UNCHANGED <<total_movement_y_delta, total_movement_x_delta,
                              last_scroll_time, scrolls_since_active>>]_vars

\* a motion event handled while inactive, with a residue and an earlier scroll to preserve
C3_Witness ==
    /\ ev.kind = "RawMotion"
    /\ ~is_active
    /\ total_movement_y_delta # 0
    /\ last_scroll_time # ZeroTime

(* C4: a threshold crossing that is not rate limited has a non-zero        *)
(* tick_count = truncate(accumulator / threshold); it clicks |tick_count|  *)
(* times when repeated scroll events are allowed and once when not, down   *)
(* or right for a positive accumulator and up or left for a negative one;  *)
(* the accumulator is reduced by tick_count * threshold in both cases.     *)

C4_TicksOfCrossing ==
    LET Ticks(acc, clicks, positive_btn, negative_btn, residue) ==
            LET tick_count == TruncDiv(acc, Threshold)
            IN  /\ tick_count # 0
                /\ Len(clicks) = IF cfg.allow_triggering_of_repeated_scroll_event
                                 THEN Abs(tick_count) ELSE 1
                /\ \A i \in 1..Len(clicks) :
                      clicks[i].a = IF acc > 0 THEN positive_btn ELSE negative_btn
                /\ residue = acc - tick_count * Threshold
    IN  /\ ev.vdue = "emit" =>
             Ticks(ev.ya, VerticalClicks(out), SCROLL_DOWN, SCROLL_UP,
                   total_movement_y_delta)
        /\ ev.hdue = "emit" =>
             Ticks(ev.xa, HorizontalClicks(out), SCROLL_RIGHT, SCROLL_LEFT,
                   total_movement_x_delta)

\* a crossing worth two ticks, clicked once, the accumulator reduced by both
C4_Witness ==
    /\ ~cfg.allow_triggering_of_repeated_scroll_event
    /\ ev.kind = "RawMotion" /\ ev.v = "emitted"
    /\ ev.ya = 2 * Threshold + 1
    /\ total_movement_y_delta = 1
    /\ VerticalClicks(out) = <<FakeButtonClick(SCROLL_DOWN)>>

(* C5 as stated: in a window that starts with accumulator 0 and has no     *)
(* suppressed crossing, with repeated scroll events allowed, the net       *)
(* number of ticks emitted equals truncate(sum of the deltas / threshold). *)

C5_Original ==
    (is_active /\ win.clean /\ cfg.allow_triggering_of_repeated_scroll_event)
        => win.net = TruncDiv(win.sum, Threshold)

(* C5 as amended: under the same conditions the net number of ticks equals *)
(* truncate(sum / threshold) whenever the accumulator is smaller than the  *)
(* threshold in magnitude and does not point against the net ticks, and    *)
(* differs from it by exactly one otherwise; in every case the sum is the   *)
(* net ticks times the threshold plus the accumulator.                     *)

C5_Additivity ==
    (is_active /\ win.clean /\ cfg.allow_triggering_of_repeated_scroll_event)
        => /\ win.sum = win.net * Threshold + total_movement_y_delta
           /\ IF /\ Abs(total_movement_y_delta) < Threshold
                 /\ total_movement_y_delta * win.net >= 0
              THEN win.net = TruncDiv(win.sum, Threshold)
              ELSE Abs(win.net - TruncDiv(win.sum, Threshold)) = 1

\* two emissions of one window that together give the ticks of the whole sum
C5_Witness ==
    /\ is_active /\ win.clean /\ cfg.allow_triggering_of_repeated_scroll_event
    /\ ev.kind = "RawMotion" /\ ev.v = "emitted"
    /\ scrolls_since_active = 2
    /\ win.net >= 3
    /\ total_movement_y_delta = 1
    /\ win.net = TruncDiv(win.sum, Threshold)

(* C6 as stated: after every event each accumulator is smaller than the    *)
(* threshold in magnitude.                                                 *)

C6_Original ==
    /\ Abs(total_movement_y_delta) < Threshold
    /\ Abs(total_movement_x_delta) < Threshold

(* C6 as amended: after every event each accumulator is at most the        *)
(* threshold in magnitude; it is smaller than the threshold right after a  *)
(* crossing of its axis that was not rate limited and 0 right after one    *)
(* that was.                                                               *)

C6_ResidualBound ==
    /\ Abs(total_movement_y_delta) <= Threshold
    /\ Abs(total_movement_x_delta) <= Threshold
    /\ ev.vdue = "emit" => Abs(total_movement_y_delta) < Threshold
    /\ ev.hdue = "emit" => Abs(total_movement_x_delta) < Threshold
    /\ ev.vdue = "suppress" => total_movement_y_delta = 0
    /\ ev.hdue = "suppress" => total_movement_x_delta = 0

\* a motion event left the accumulator exactly on the threshold, without a crossing
C6_Witness ==
    /\ ev.kind = "RawMotion" /\ ev.vdue = "none"
    /\ is_active
    /\ total_movement_y_delta = -Threshold

(* C7: a crossing less than 30 ms after the last emission clicks no button *)
(* and releases no key, sets the accumulator of its axis to 0, and leaves  *)
(* the time of the last emission and the count of emissions of the window  *)
(* as they were; the accumulator of the other axis changes only by what    *)
(* the check of that axis does with its own delta.                         *)

C7_Suppression ==
    [][(is_active /\ MotionStep) =>
         /\ ev'.vdue = "suppress" =>
              /\ total_movement_y_delta' = 0
              /\ VerticalClicks(out') = <<>>
              /\ ev'.hdue # "emit" =>
                    /\ out' = <<WarpPointer(start_pointer_pos)>>
                    /\ UNCHANGED <<last_scroll_time, scrolls_since_active>>
              /\ ev'.hdue = "none" => total_movement_x_delta' = ev'.xa
         /\ ev'.hdue = "suppress" =>
              /\ total_movement_x_delta' = 0
              /\ HorizontalClicks(out') = <<>>
              /\ ev'.vdue # "emit" =>
                    /\ out' = <<WarpPointer(start_pointer_pos)>>
                    /\ UNCHANGED <<last_scroll_time, scrolls_since_active>>
              /\ ev'.vdue = "emit" =>
                    /\ last_scroll_time' = now
                    /\ scrolls_since_active' = scrolls_since_active + 1
              /\ ev'.vdue = "none" => total_movement_y_delta' = ev'.ya]_vars

\* the second crossing of a window, 1 ns short of 30 ms after the first: nothing but the warp
C7_Witness ==
    /\ ev.kind = "RawMotion" /\ ev.vdue = "suppress"
    /\ is_active /\ scrolls_since_active = 1
    /\ last_scroll_time = StartTime
    /\ now = TimeAdd(StartTime, SpeedLimitNs - 1)
    /\ total_movement_y_delta = 0
    /\ out = <<WarpPointer(start_pointer_pos)>>

(* C8: two emissions are never less than 30 ms apart, and a crossing 30 ms *)
(* or more after the last emission, or before any emission, emits and sets *)
(* the time of the last emission to the clock it read.                     *)

C8_EmissionSpacing ==
    [][(is_active /\ MotionStep) =>
         /\ VerticalClicks(out') # <<>> =>
              ~LessThanLimitAfter(last_scroll_time, now)
         /\ HorizontalClicks(out') # <<>> =>
              ~LessThanLimitAfter(IF VerticalClicks(out') # <<>> THEN now
                                  ELSE last_scroll_time, now')
         /\ ev'.vdue = "emit" =>
              /\ VerticalClicks(out') # <<>>
              /\ HorizontalClicks(out') = <<>> => last_scroll_time' = now
         /\ ev'.hdue = "emit" =>
              /\ HorizontalClicks(out') # <<>>
              /\ last_scroll_time' = now']_vars

\* the second emission of a window, exactly 30 ms after the first
C8_Witness ==
    /\ ev.kind = "RawMotion" /\ ev.v = "emitted"
    /\ scrolls_since_active = 2
    /\ last_scroll_time = TimeAdd(StartTime, SpeedLimitNs)
    /\ now = last_scroll_time

(* C9: on every transition from inactive to active both accumulators are   *)
(* reset, so that both are 0 right after it.                               *)

C9_ActivationResets ==
    [][(~is_active /\ is_active') =>
         /\ total_movement_y_delta' = 0
         /\ total_movement_x_delta' = 0]_vars

(* C10: a key event matches the trigger chord iff its key code is the      *)
(* configured one and the configured modifier mask is zero or all its bits *)
(* are among the modifiers of the event.  A non-repeat key press from a    *)
(* real device while inactive activates exactly when it matches.           *)

C10_ChordRule ==
    [][(~is_active /\ PressStep) =>
         LET Matches(key_code, modifiers) ==
                 /\ key_code = cfg.trigger_key_code
                 /\ \/ cfg.trigger_key_modifiers = 0
                    \/ BitAnd(modifiers, cfg.trigger_key_modifiers)
                          = cfg.trigger_key_modifiers
         IN  \A k \in KeyCodes, m \in EventModifiers, dev \in DeviceIds,
                pos \in PointerPositions :
                (FromRealDevice(dev) /\ KeyPress(k, m, FALSE, dev, pos)) =>
                   (is_active' <=> Matches(k, m))]_vars

(* C11: with release_trigger_button set, a motion event releases the       *)
(* trigger key exactly when it holds the first crossing of the activation  *)
(* window that is due to emit: once, right before the first click of the   *)
(* event; a suppressed crossing and a later emission of the window release *)
(* nothing, no other step releases a key, and every activation starts a    *)
(* window with no emission counted.                                        *)

C11_ReleaseBeforeFirstScroll ==
    [][cfg.release_trigger_button =>
         LET first == /\ is_active /\ MotionStep
                      /\ env.emissions = 0
                      /\ (ev'.vdue = "emit" \/ ev'.hdue = "emit")
         IN  /\ first =>
                  \E p \in 1..(Len(out') - 1) :
                     /\ out'[p] = FakeKeyRelease(cfg.trigger_key_code)
                     /\ out'[p + 1].call = "XTestFakeButtonEvent"
                     /\ \A q \in 1..Len(out') :
                           /\ q < p => out'[q].call # "XTestFakeButtonEvent"
                           /\ q # p => out'[q].call # "XTestFakeKeyEvent"
             /\ ~first => KeyReleases(out') = <<>>
             /\ (~is_active /\ is_active') =>
                  env' = EnvStart /\ scrolls_since_active' = 0]_vars

\* the second emission of a window: the key was released once, before the first
C11_Witness ==
    /\ cfg.release_trigger_button
    /\ is_active /\ ev.kind = "RawMotion" /\ ev.vdue = "emit"
    /\ env.emissions = 2 /\ env.releases = 1
    /\ KeyReleases(out) = <<>>
    /\ VerticalClicks(out) # <<>>

(* C12: with allow_horizontal_scroll off no step clicks the left or the    *)
(* right button or changes the horizontal accumulator; whatever the flag,  *)
(* every motion event handled while active adds its vertical delta to the  *)
(* vertical accumulator and treats the crossing: it clicks up or down when *)
(* an emission is due and resets the accumulator when the rate limit       *)
(* suppresses it.                                                          *)

C12_HorizontalOff ==
    [][/\ ~cfg.allow_horizontal_scroll =>
            /\ HorizontalClicks(out') = <<>>
            /\ total_movement_x_delta' = total_movement_x_delta
       /\ (is_active /\ MotionStep) =>
            /\ ev'.vdue = "none" => total_movement_y_delta' = ev'.ya
            /\ ev'.vdue = "emit" =>
                 /\ VerticalClicks(out') # <<>>
                 /\ total_movement_y_delta' # ev'.ya
            /\ ev'.vdue = "suppress" => total_movement_y_delta' = 0]_vars

\* horizontal scrolling off: a motion event scrolled down and left the other axis alone
C12_Witness ==
    /\ ~cfg.allow_horizontal_scroll
    /\ is_active /\ ev.kind = "RawMotion" /\ ev.vdue = "emit"
    /\ VerticalClicks(out) = <<FakeButtonClick(SCROLL_DOWN)>>
    /\ HorizontalClicks(out) = <<>>
    /\ total_movement_x_delta = 0

(* C13: the event loop handles events only if the argument of -c was a     *)
(* well-formed positive number: a malformed argument or a threshold that   *)
(* is not positive ends the process before the loop.                       *)

C13_ConfigErrorFatal ==
    LET WellFormedPositive(optarg) ==
            /\ optarg # <<>>
            /\ \A i \in 1..Len(optarg) : IsDigit(optarg[i])
            /\ StripZeros(DigitRun(optarg)) # <<>>
    IN  ev.kind # "Start" => (WellFormedPositive(cvalue) /\ Threshold > 0)

(* C14: a key press flagged as a repeat, and a key press or a key release  *)
(* that comes from the XTEST keyboard, changes neither the activation      *)
(* state nor the position the pointer is warped to; so the release of the  *)
(* trigger key that the program synthesises leaves a momentary window      *)
(* open.                                                                   *)

C15_MatchWhileActiveNoOp ==
    [][(~cfg.is_toggle_mode_on /\ is_active /\ ev'.kind = "KeyPressHit") =>
         /\ out' = <<>>
         /\ UNCHANGED <<is_active, total_movement_y_delta, total_movement_x_delta,
                        scrolls_since_active, start_pointer_pos>>]_vars

(* C16: every motion event handled while active warps the pointer exactly  *)
(* once, whatever its checks do, to the position the program holds, and    *)
(* that position is the one recorded at the latest transition from         *)
(* inactive to active: no other step changes it.                           *)

C16_WarpToAnchor ==
    [][/\ (is_active /\ MotionStep) =>
            Warps(out') = <<WarpPointer(start_pointer_pos)>>
       /\ start_pointer_pos' # start_pointer_pos => (~is_active /\ is_active')]_vars

(* C17: a step asks the X server to hide the cursor exactly when it takes  *)
(* the program from inactive to active and to show it exactly when it      *)
(* takes the program from active to inactive, once each; so the requests   *)
(* alternate, hide first, and after every step the cursor is hidden (one   *)
(* hide request is unmatched) iff the program is active.                   *)

C17_CursorTracksActivation ==
    [][LET hides == SelectSeq(out', LAMBDA r : r = HideCursor)
           shows == SelectSeq(out', LAMBDA r : r = ShowCursor)
       IN  /\ Len(hides) = IF ~is_active /\ is_active' THEN 1 ELSE 0
           /\ Len(shows) = IF is_active /\ ~is_active' THEN 1 ELSE 0
           /\ hide_count = (IF is_active THEN 1 ELSE 0)
           /\ hide_count' = (IF is_active' THEN 1 ELSE 0)]_vars

\* the second activation, after a window that scrolled: the cursor is hidden again
C17_Witness ==
    /\ is_active
    /\ out = <<HideCursor>>
    /\ hide_count = 1
    /\ last_scroll_time # ZeroTime

(* C18: in a window that starts with accumulator 0 and has no suppressed   *)
(* crossing, after every event the sum of the deltas of the window equals  *)
(* the accumulator plus the threshold times the sum of the tick counts     *)
(* truncate(accumulator / threshold) of its crossings, whether the clicks  *)
(* were clamped to one or not.                                             *)

C18_MotionConservation ==
    (is_active /\ win.clean) =>
        win.sum = total_movement_y_delta + Threshold * win.ticks

\* repeated scroll events off: a crossing worth two ticks clicked once and took off both
C18_Witness ==
    /\ ~cfg.allow_triggering_of_repeated_scroll_event
    /\ is_active /\ win.clean
    /\ ev.kind = "RawMotion" /\ ev.vdue = "emit"
    /\ win.ticks = 2 /\ win.net = 1
    /\ win.sum = 5 /\ total_movement_y_delta = 1

(* C19: a step from active to inactive leaves both accumulators and the    *)
(* time of the last emission as they were, and the activation state is     *)
(* changed only by the handling of a key event that matches the trigger:   *)
(* a non-repeat press that is_trigger_shortcut accepts, or in momentary    *)
(* mode a release of the trigger key code, from a device other than the    *)
(* XTEST keyboard; never by a motion event, another event or the clock.    *)

C20_AxisOrdering ==
    [][(is_active /\ MotionStep /\ cfg.allow_horizontal_scroll) =>
         /\ Clicks(out', {SCROLL_UP, SCROLL_DOWN, SCROLL_LEFT, SCROLL_RIGHT})
              = VerticalClicks(out') \o HorizontalClicks(out')
         /\ (/\ ev'.vdue = "emit"
             /\ Abs(ev'.xa) > Threshold
             /\ LessThanLimitAfter(now, now')) =>
              /\ VerticalClicks(out') # <<>>
              /\ HorizontalClicks(out') = <<>>
              /\ total_movement_x_delta' = 0
              /\ last_scroll_time' = now]_vars

\* both axes crossed in one event whose horizontal check read the clock 1 ns
\* short of 30 ms after the vertical one: vertical ticks only, horizontal reset
C20_Witness ==
    /\ ev.kind = "RawMotion" /\ ev.vdue = "emit" /\ ev.h = "suppressed"
    /\ cfg.allow_horizontal_scroll /\ is_active
    /\ Abs(ev.xa) > Threshold
    /\ now = TimeAdd(last_scroll_time, SpeedLimitNs - 1)
    /\ VerticalClicks(out) # <<>> /\ HorizontalClicks(out) = <<>>
    /\ total_movement_x_delta = 0

====
